---- MODULE Spec2Model ----
(***************************************************************************)
(* Model of the validation service of protogo-values-validation-demo       *)
(* (internal/server/validation_service.go).                                *)
(*                                                                         *)
(* Three operations of ValidationServer are modelled, each under its own   *)
(* specification over the shared variable list:                            *)
(*   Spec / FairSpec : StreamValidation, one connection, with its client   *)
(*   BenchSpec       : RunBenchmarks, phase by phase, with a deadline      *)
(*   TypesSpec       : ValidateTypes over the generated field types        *)
(***************************************************************************)
EXTENDS Integers, Sequences, FiniteSets, TLC

\* ------------------------------------------------------------------------
\* Bounds of the model
\* ------------------------------------------------------------------------

\* requests a client sends on one connection
MaxReqs == 2

\* elements in each collection field of a stream payload
MaxElems == 1

\* ------------------------------------------------------------------------
\* Streaming: data
\* ------------------------------------------------------------------------

\* request_id and sequence_number values a client may use; the handler never
\* interprets them, so repeated and out-of-order numbers are included
RequestIds == {"req_0", "req_1"}

SequenceNumbers == {0, 1}

\* time.Since(startTime) as the clock may report it (ns): below the clock's
\* granularity, or not
ProcessingTimes == {0, 1500}

\* *v1.ValidationTestMessage: <<>> is the nil pointer, <<m>> points to m.
\* A message is modelled by the lengths of its three collection fields.
NilMsg == <<>>

TestMessage(n) == << [ValueSliceData |-> n, PointerSliceData |-> n, Metrics |-> n] >>

TestDatas == {NilMsg} \cup {TestMessage(n) : n \in 0..MaxElems}

StreamRequests == [RequestId : RequestIds, SequenceNumber : SequenceNumbers, TestData : TestDatas]

NoRequest == <<>>

\* ------------------------------------------------------------------------
\* State
\* ------------------------------------------------------------------------

VARIABLES
    \* the generated types: reflect.TypeOf(field).String() of every field the
    \* service inspects
    gen,
    \* the deadline of the unary call's context has passed
    ctxDone,
    \* --- one StreamValidation connection ---
    sendSide,     \* client's half of the stream: "open", "closed", "failed"
    sendq,        \* requests sent by the client, not yet returned by Recv
    pc,           \* handler position: "recv", "process", "done"
    req,          \* <<request>> being processed, or NoRequest
    received,     \* requests stream.Recv has returned, in order
    emitted,      \* responses stream.Send has accepted, in order
    recvErr,      \* error the last stream.Recv returned: "none", "EOF", "transport"
    sendFailed,   \* a stream.Send has returned an error
    ret,          \* what StreamValidation returned: "running", "nil",
                  \* "SendErr", "RecvErr", "panic" (the goroutine panicked), or
                  \* "killed" (the process exited under it)
    conn,         \* connection state: "OPEN", "CLOSED", or "CRASHED"
    \* --- one RunBenchmarks call ---
    bReq,         \* the BenchmarkRequest
    bpc,          \* position: "start", "pointer", "memory", "serialization", "done"
    bLog,         \* the phases begun, each with the deadline's state at its start
    bResults,     \* the local slice `results`
    bResp,        \* <<response>> returned, or <<>> for nil
    bRet,         \* "running", "ok", "InvalidArgument", "DeadlineExceeded", "panic"
    \* --- one ValidateTypes call ---
    vReq,         \* the ValidateTypesRequest
    vCtxAtStart,  \* the deadline's state when the call began
    vResp,        \* <<response>> returned, or <<>> for nil
    vRet,         \* "idle", "ok", "DeadlineExceeded"
    \* --- calculateBenchmarkSummary applied to a list of results ---
    sResults,     \* the list
    sSummary,     \* <<summary>> once computed
    \* --- benchmarkMemoryAllocation applied to its arguments ---
    aArgs,        \* iterations and dataSize
    aResult,      \* <<result>> once returned
    \* --- ValidateTypes calls running concurrently on one server ---
    calls,        \* the locals of each call's goroutine
    callResp,     \* per call: <<response>> once returned
    \* --- one request to the HTTP readiness probe ---
    hCall,        \* <<what its ValidateTypes call returned>>
    hStatus,      \* the status code written, 0 before
    \* --- StreamValidation connections served side by side ---
    cur,          \* the connection whose goroutine is running: the one the
                  \* stream variables above describe
    parked,       \* per connection: <<its stream variables>> while another runs
    sent          \* per connection: the request its client sent

streamVars == <<sendSide, sendq, pc, req, received, emitted, recvErr, sendFailed, ret, conn>>

benchVars == <<bReq, bpc, bLog, bResults, bResp, bRet>>

typesVars == <<vReq, vCtxAtStart, vResp, vRet>>

summaryVars == <<sResults, sSummary>>

allocVars == <<aArgs, aResult>>

concVars == <<calls, callResp>>

\* the functions and calls examined on their own
probeVars == <<hCall, hStatus>>

multiVars == <<cur, parked, sent>>

unitVars == <<summaryVars, allocVars, concVars, probeVars, multiVars>>

vars == <<gen, ctxDone, streamVars, benchVars, typesVars, unitVars>>

\* what a streaming step leaves alone
nonStreamVars == <<gen, ctxDone, benchVars, typesVars, summaryVars, allocVars, concVars,
                   probeVars>>

\* what a statement of a concurrent call leaves alone
nonConcVars == <<gen, ctxDone, streamVars, benchVars, typesVars, summaryVars, allocVars,
                 probeVars, multiVars>>

SummaryIdle ==
    /\ sResults = <<>>
    /\ sSummary = <<>>

AllocIdle ==
    /\ aArgs = [Iterations |-> 1, DataSize |-> 1]
    /\ aResult = <<>>

ConcIdle ==
    /\ calls = <<>>
    /\ callResp = <<>>

ProbeIdle ==
    /\ hCall = <<>>
    /\ hStatus = 0

MultiIdle ==
    /\ cur = 1
    /\ parked = <<>>
    /\ sent = <<>>

UnitIdle ==
    /\ SummaryIdle
    /\ AllocIdle
    /\ ConcIdle
    /\ ProbeIdle
    /\ MultiIdle

\* ------------------------------------------------------------------------
\* Generated types.  A type string is the sequence of its characters.
\* ------------------------------------------------------------------------

SlicePrefix == <<"[", "]">>

PointerPrefix == <<"[", "]", "*">>

DataPointName == <<"v", "1", ".", "D", "a", "t", "a", "P", "o", "i", "n", "t">>

MetricPointName == <<"v", "1", ".", "M", "e", "t", "r", "i", "c", "P", "o", "i", "n", "t">>

MetadataName == <<"v", "1", ".", "M", "e", "t", "a", "d", "a", "t", "a">>

ProcessingResultName == <<"v", "1", ".", "P", "r", "o", "c", "e", "s", "s", "i", "n", "g", "R", "e", "s", "u", "l", "t">>

ValueSliceOf(name) == SlicePrefix \o name

PointerSliceOf(name) == PointerPrefix \o name

\* the fields the service inspects, in the order it inspects them
Fields == << "ValidationTestMessage.ValueSliceData",
             "ValidationTestMessage.PointerSliceData",
             "ValidationTestMessage.Metrics",
             "PerformanceTestMessage.ValueSliceData",
             "PerformanceTestMessage.PointerSliceData",
             "PerformanceTestMessage.Results" >>

FieldSet == {Fields[i] : i \in 1..Len(Fields)}

\* the element type of each field
ElemName(f) ==
    CASE f = "ValidationTestMessage.ValueSliceData"    -> DataPointName
      [] f = "ValidationTestMessage.PointerSliceData"  -> DataPointName
      [] f = "ValidationTestMessage.Metrics"           -> MetricPointName
      [] f = "PerformanceTestMessage.ValueSliceData"   -> DataPointName
      [] f = "PerformanceTestMessage.PointerSliceData" -> MetadataName
      [] f = "PerformanceTestMessage.Results"          -> ProcessingResultName

\* what the code generator may have produced for a repeated message field:
\* a slice of values or a slice of pointers
GenChoices(f) == {ValueSliceOf(ElemName(f)), PointerSliceOf(ElemName(f))}

\* the types the plugin is meant to generate
FreshGen == [f \in FieldSet |->
    IF f \in {"ValidationTestMessage.PointerSliceData", "PerformanceTestMessage.PointerSliceData"}
    THEN PointerSliceOf(ElemName(f)) ELSE ValueSliceOf(ElemName(f))]

\* the generated types a streaming run starts from: the intended ones, or
\* ValidationTestMessage.ValueSliceData left untransformed
StreamGens == {FreshGen,
               [FreshGen EXCEPT !["ValidationTestMessage.ValueSliceData"] = PointerSliceOf(DataPointName)]}

\* ------------------------------------------------------------------------
\* RunBenchmarks: data
\* ------------------------------------------------------------------------

\* largest iterations and data_size a request carries
MaxIterations == 2

MaxDataSize == 2

\* largest length proto.Marshal returns for the benchmark's message
MaxEncodedLen == 2

\* int32 fields of the request; zero and negative values are included
IterationValues == -1..MaxIterations

DataSizeValues == -1..MaxDataSize

BenchmarkNameLists == { <<>>, <<"value_slice", "pointer_slice">>, <<"no_such_benchmark">> }

BenchmarkRequests == [Iterations : IterationValues, DataSize : DataSizeValues, BenchmarkNames : BenchmarkNameLists]

\* time.Since(start) of a benchmark's timed loop (ns), as the clock may
\* report it
Durations == {0, 1500, 3000}

\* one call of proto.Marshal(msg): the encoded bytes, an error, or a panic.
\* The message holds a value slice, on which the marshaler's reflection
\* panics ("reflect: Elem of invalid type v1.DataPoint").
MarshalOutcomes ==
    {[kind |-> "ok", len |-> n] : n \in 1..MaxEncodedLen}
        \cup {[kind |-> "err", len |-> 0], [kind |-> "panic", len |-> 0]}

\* float64(iterations) / duration.Seconds(): IEEE division, +Inf on a zero
\* duration (iterations > 0); a finite quotient is kept as the pair it divides
OperationsPerSecond(iterations, ns) ==
    IF ns = 0
    THEN [kind |-> "+Inf", num |-> iterations, den |-> 0]
    ELSE [kind |-> "finite", num |-> iterations, den |-> ns]

\* ------------------------------------------------------------------------
\* int64: a value is its eight bytes, least significant first (two's
\* complement); sums and products wrap around at 2^64 as Go's do
\* ------------------------------------------------------------------------

\* int64(n) of an int n, 0 <= n < 2^31
Int64FromInt(n) ==
    [i \in 1..8 |-> IF i <= 4 THEN (n \div (256 ^ (i - 1))) % 256 ELSE 0]

\* the carry into byte i of a + b
RECURSIVE AddCarry(_, _, _)
AddCarry(a, b, i) ==
    IF i = 1 THEN 0 ELSE (a[i - 1] + b[i - 1] + AddCarry(a, b, i - 1)) \div 256

\* a + b
Int64Add(a, b) == [i \in 1..8 |-> (a[i] + b[i] + AddCarry(a, b, i)) % 256]

\* a[1]*b[i] + a[2]*b[i-1] + ... + a[j]*b[i-j+1]
RECURSIVE MulColumn(_, _, _, _)
MulColumn(a, b, i, j) ==
    IF j = 0 THEN 0 ELSE MulColumn(a, b, i, j - 1) + a[j] * b[i - j + 1]

\* the carry into byte i of a * b
RECURSIVE MulCarry(_, _, _)
MulCarry(a, b, i) ==
    IF i = 1 THEN 0 ELSE (MulColumn(a, b, i - 1, i - 1) + MulCarry(a, b, i - 1)) \div 256

\* a * b
Int64Mul(a, b) == [i \in 1..8 |-> (MulColumn(a, b, i, i) + MulCarry(a, b, i)) % 256]

\* a < 0: the sign bit
Int64Negative(a) == a[8] >= 128

\* ------------------------------------------------------------------------
\* RunBenchmarks: the four benchmarks and the summary
\* ------------------------------------------------------------------------

\* `duration` is what the clock measured for the timed loop
benchmarkValueSliceIteration(iterations, dataSize, duration) ==
    [ Name                |-> "ValueSlice_Iteration",
      DurationNs          |-> duration,
      Allocations         |-> 0,
      BytesAllocated      |-> Int64FromInt(0),
      OperationsPerSecond |-> OperationsPerSecond(iterations, duration) ]

\* one allocation per element charged to the timed loop
benchmarkPointerSliceIteration_PerElement(iterations, dataSize, duration) ==
    [ Name                |-> "PointerSlice_Iteration",
      DurationNs          |-> duration,
      Allocations         |-> dataSize,
      BytesAllocated      |-> Int64FromInt(dataSize * 64),
      OperationsPerSecond |-> OperationsPerSecond(iterations, duration) ]

benchmarkPointerSliceIteration(iterations, dataSize, duration) ==
    [ Name                |-> "PointerSlice_Iteration",
      DurationNs          |-> duration,
      Allocations         |-> 0,
      BytesAllocated      |-> Int64FromInt(0),
      OperationsPerSecond |-> OperationsPerSecond(iterations, duration) ]

benchmarkMemoryAllocation(iterations, dataSize, duration) ==
    [ Name                |-> "Memory_Allocation",
      DurationNs          |-> duration,
      Allocations         |-> iterations,
      BytesAllocated      |-> Int64Mul(Int64Mul(Int64FromInt(iterations), Int64FromInt(dataSize)),
                                       Int64FromInt(64)),
      OperationsPerSecond |-> OperationsPerSecond(iterations, duration) ]

\* totalBytes after the loop over the first n calls of proto.Marshal
RECURSIVE TotalBytes(_, _)
TotalBytes(outcomes, n) ==
    IF n = 0
    THEN Int64FromInt(0)
    ELSE IF outcomes[n].kind = "ok"
         THEN Int64Add(TotalBytes(outcomes, n - 1), Int64FromInt(outcomes[n].len))
         ELSE TotalBytes(outcomes, n - 1)

\* a call of proto.Marshal panicked: the benchmark does not return
MarshalPanics(outcomes) == \E i \in 1..Len(outcomes) : outcomes[i].kind = "panic"

\* `outcomes` are the results of the `iterations` calls of proto.Marshal
benchmarkSerialization(iterations, dataSize, duration, outcomes) ==
    [ Name                |-> "Serialization",
      DurationNs          |-> duration,
      Allocations         |-> iterations,
      BytesAllocated      |-> TotalBytes(outcomes, iterations),
      OperationsPerSecond |-> OperationsPerSecond(iterations, duration) ]

\* results of any other name added to memoryUsage as well
RECURSIVE SummaryLocals_AnyName(_, _)
SummaryLocals_AnyName(results, n) ==
    IF n = 0
    THEN [valueSliceDuration |-> 0, pointerSliceDuration |-> 0,
          memoryUsage |-> Int64FromInt(0)]
    ELSE LET acc == SummaryLocals_AnyName(results, n - 1)
             result == results[n]
         IN  CASE result.Name = "ValueSlice_Iteration" ->
                    [acc EXCEPT !.valueSliceDuration = result.DurationNs]
               [] result.Name = "PointerSlice_Iteration" ->
                    [acc EXCEPT !.pointerSliceDuration = result.DurationNs]
               [] OTHER ->
                    [acc EXCEPT !.memoryUsage = Int64Add(@, result.BytesAllocated)]

\* the loop over the results: the locals after the first n results
RECURSIVE SummaryLocals(_, _)
SummaryLocals(results, n) ==
    IF n = 0
    THEN [valueSliceDuration |-> 0, pointerSliceDuration |-> 0,
          memoryUsage |-> Int64FromInt(0)]
    ELSE LET acc == SummaryLocals(results, n - 1)
             result == results[n]
         IN  CASE result.Name = "ValueSlice_Iteration" ->
                    [acc EXCEPT !.valueSliceDuration = result.DurationNs]
               [] result.Name = "PointerSlice_Iteration" ->
                    [acc EXCEPT !.pointerSliceDuration = result.DurationNs]
               [] result.Name \in {"Memory_Allocation", "Serialization"} ->
                    [acc EXCEPT !.memoryUsage = Int64Add(@, result.BytesAllocated)]
               [] OTHER -> acc

\* the division done whatever the durations are
calculateBenchmarkSummary_Unguarded(results) ==
    LET l == SummaryLocals(results, Len(results))
    IN  [ ValueSliceAvgDuration       |-> l.valueSliceDuration,
          PointerSliceAvgDuration     |-> l.pointerSliceDuration,
          PerformanceImprovementRatio |->
              [num |-> l.pointerSliceDuration, den |-> l.valueSliceDuration],
          MemorySavingsBytes          |-> l.memoryUsage ]

\* the ratio is kept as the pair it divides; 1.0 is 1/1
calculateBenchmarkSummary(results) ==
    LET l == SummaryLocals(results, Len(results))
    IN  [ ValueSliceAvgDuration       |-> l.valueSliceDuration,
          PointerSliceAvgDuration     |-> l.pointerSliceDuration,
          PerformanceImprovementRatio |->
              IF l.pointerSliceDuration > 0 /\ l.valueSliceDuration > 0
              THEN [num |-> l.pointerSliceDuration, den |-> l.valueSliceDuration]
              ELSE [num |-> 1, den |-> 1],
          MemorySavingsBytes          |-> l.memoryUsage ]

\* ------------------------------------------------------------------------
\* RunBenchmarks: the handler, phase by phase
\* ------------------------------------------------------------------------

BenchIdle ==
    /\ bReq = [Iterations |-> 1, DataSize |-> 1, BenchmarkNames |-> <<>>]
    /\ bpc = "done"
    /\ bLog = <<>>
    /\ bResults = <<>>
    /\ bResp = <<>>
    /\ bRet = "running"

BenchInit ==
    /\ bReq \in BenchmarkRequests
    /\ bpc = "start"
    /\ bLog = <<>>
    /\ bResults = <<>>
    /\ bResp = <<>>
    /\ bRet = "running"

\* the caller's deadline passes while the call is under way
DeadlineExpires ==
    /\ bpc # "done"
    /\ ~ctxDone
    /\ ctxDone' = TRUE
    /\ UNCHANGED <<unitVars, gen, streamVars, benchVars, typesVars>>

\* a phase begins now
Logged(phase) == Append(bLog, [phase |-> phase, expired |-> ctxDone])

\* return nil, status.Errorf(code, ...)
BenchFail(code) ==
    /\ bRet' = code
    /\ bResp' = <<>>
    /\ bpc' = "done"

\* the checks with zero let through
ArgumentError_ZeroAccepted(r) ==
    IF r.Iterations < 0 THEN "InvalidArgument"
    ELSE IF r.DataSize < 0 THEN "InvalidArgument"
    ELSE "none"

\* the two checks of the request
ArgumentError(r) ==
    IF r.Iterations <= 0 THEN "InvalidArgument"
    ELSE IF r.DataSize <= 0 THEN "InvalidArgument"
    ELSE "none"

\* the checks of the parameters, then the first benchmark
BenchStart ==
    /\ bpc = "start"
    /\ IF ArgumentError(bReq) # "none"
       THEN /\ BenchFail(ArgumentError(bReq))
            /\ UNCHANGED <<bLog, bResults>>
       ELSE \E d \in Durations :
               /\ bResults' = Append(<<>>, benchmarkValueSliceIteration(bReq.Iterations, bReq.DataSize, d))
               /\ bLog' = Logged("ValueSlice_Iteration")
               /\ bpc' = "pointer"
               /\ UNCHANGED <<bResp, bRet>>
    /\ UNCHANGED <<unitVars, gen, ctxDone, streamVars, typesVars, bReq>>

BenchPointerSlice ==
    /\ bpc = "pointer"
    /\ \E d \in Durations :
          bResults' = Append(bResults, benchmarkPointerSliceIteration(bReq.Iterations, bReq.DataSize, d))
    /\ bLog' = Logged("PointerSlice_Iteration")
    /\ bpc' = "memory"
    /\ UNCHANGED <<unitVars, gen, ctxDone, streamVars, typesVars, bReq, bResp, bRet>>

BenchMemory ==
    /\ bpc = "memory"
    /\ \E d \in Durations :
          bResults' = Append(bResults, benchmarkMemoryAllocation(bReq.Iterations, bReq.DataSize, d))
    /\ bLog' = Logged("Memory_Allocation")
    /\ bpc' = "serialization"
    /\ UNCHANGED <<unitVars, gen, ctxDone, streamVars, typesVars, bReq, bResp, bRet>>

\* the response built once the four results are in
BenchmarkResponse(results) ==
    [ Success |-> TRUE,
      Results |-> results,
      Summary |-> << calculateBenchmarkSummary(results) >> ]

\* the last benchmark, the summary and the return
BenchSerializationAndReturn ==
    /\ bpc = "serialization"
    /\ bLog' = Logged("Serialization")
    /\ \E d \in Durations, outcomes \in [1..bReq.Iterations -> MarshalOutcomes] :
          IF MarshalPanics(outcomes)
          THEN /\ bRet' = "panic"
               /\ bpc' = "done"
               /\ UNCHANGED <<bResults, bResp>>
          ELSE LET results == Append(bResults,
                                  benchmarkSerialization(bReq.Iterations, bReq.DataSize, d, outcomes))
               IN  /\ bResults' = results
                   /\ bResp' = << BenchmarkResponse(results) >>
                   /\ bRet' = "ok"
                   /\ bpc' = "done"
    /\ UNCHANGED <<unitVars, gen, ctxDone, streamVars, typesVars, bReq>>

\* ------------------------------------------------------------------------
\* ValidateTypes
\* ------------------------------------------------------------------------

ScenarioLists == { <<>>, <<"basic", "performance">>, <<"worker_0", "worker_0">> }

ValidateTypesRequests == [TestScenarios : ScenarioLists, DeepValidation : BOOLEAN]

ExpectedWord == <<"E", "x", "p", "e", "c", "t", "e", "d", " ">>

GotWord == <<",", " ", "g", "o", "t", " ">>

\* the message built whether or not the types differ
getErrorMessage_Always(actual, expected) ==
    ExpectedWord \o expected \o GotWord \o actual

\* fmt.Sprintf("Expected %s, got %s", expected, actual), or ""
getErrorMessage(actual, expected) ==
    IF actual # expected
    THEN ExpectedWord \o expected \o GotWord \o actual
    ELSE <<>>

\* typeStr[:2] == "[]" && typeStr[2] != '*'  (indices from 1 here)
containsValueSlice(typeStr) ==
    /\ SubSeq(typeStr, 1, 2) = <<"[", "]">>
    /\ typeStr[3] # "*"

\* typeStr[:3] == "[]*"
containsPointerSlice(typeStr) ==
    SubSeq(typeStr, 1, 3) = <<"[", "]", "*">>

\* the type each scenario expects
ExpectedType(f) ==
    CASE f = "ValidationTestMessage.ValueSliceData"    -> ValueSliceOf(DataPointName)
      [] f = "ValidationTestMessage.PointerSliceData"  -> PointerSliceOf(DataPointName)
      [] f = "ValidationTestMessage.Metrics"           -> ValueSliceOf(MetricPointName)
      [] f = "PerformanceTestMessage.ValueSliceData"   -> ValueSliceOf(DataPointName)
      [] f = "PerformanceTestMessage.PointerSliceData" -> PointerSliceOf(MetadataName)
      [] f = "PerformanceTestMessage.Results"          -> ValueSliceOf(ProcessingResultName)

\* the result literal appended for one field
ValidationResult(scenario, actualType, expectedType) ==
    [ Scenario     |-> scenario,
      Passed       |-> (actualType = expectedType),
      ErrorMessage |-> getErrorMessage(actualType, expectedType),
      ExpectedType |-> expectedType,
      ActualType   |-> actualType ]

validateValidationTestMessageTypes ==
    << ValidationResult("ValidationTestMessage.ValueSliceData",
                        gen["ValidationTestMessage.ValueSliceData"], ValueSliceOf(DataPointName)),
       ValidationResult("ValidationTestMessage.PointerSliceData",
                        gen["ValidationTestMessage.PointerSliceData"], PointerSliceOf(DataPointName)),
       ValidationResult("ValidationTestMessage.Metrics",
                        gen["ValidationTestMessage.Metrics"], ValueSliceOf(MetricPointName)) >>

\* PointerSliceData checked against the element type of the other message
validatePerformanceTestMessageTypes_DataPoint ==
    << ValidationResult("PerformanceTestMessage.ValueSliceData",
                        gen["PerformanceTestMessage.ValueSliceData"], ValueSliceOf(DataPointName)),
       ValidationResult("PerformanceTestMessage.PointerSliceData",
                        gen["PerformanceTestMessage.PointerSliceData"], PointerSliceOf(DataPointName)),
       ValidationResult("PerformanceTestMessage.Results",
                        gen["PerformanceTestMessage.Results"], ValueSliceOf(ProcessingResultName)) >>

validatePerformanceTestMessageTypes ==
    << ValidationResult("PerformanceTestMessage.ValueSliceData",
                        gen["PerformanceTestMessage.ValueSliceData"], ValueSliceOf(DataPointName)),
       ValidationResult("PerformanceTestMessage.PointerSliceData",
                        gen["PerformanceTestMessage.PointerSliceData"], PointerSliceOf(MetadataName)),
       ValidationResult("PerformanceTestMessage.Results",
                        gen["PerformanceTestMessage.Results"], ValueSliceOf(ProcessingResultName)) >>

\* the counting loop without the test of result.Passed
RECURSIVE SliceCounts_Unguarded(_, _)
SliceCounts_Unguarded(results, n) ==
    IF n = 0
    THEN <<0, 0>>
    ELSE LET c == SliceCounts_Unguarded(results, n - 1)
             result == results[n]
         IN  IF containsValueSlice(result.ActualType)
             THEN <<c[1] + 1, c[2]>>
             ELSE IF containsPointerSlice(result.ActualType)
             THEN <<c[1], c[2] + 1>>
             ELSE c

\* the counting loop: <<valueSliceCount, pointerSliceCount>> after the first
\* n results
RECURSIVE SliceCounts(_, _)
SliceCounts(results, n) ==
    IF n = 0
    THEN <<0, 0>>
    ELSE LET c == SliceCounts(results, n - 1)
             result == results[n]
         IN  IF result.Passed /\ containsValueSlice(result.ActualType)
             THEN <<c[1] + 1, c[2]>>
             ELSE IF result.Passed /\ containsPointerSlice(result.ActualType)
             THEN <<c[1], c[2] + 1>>
             ELSE c

\* allPassed overwritten by every result: the last one decides
AllPassed_LastDecides(results) == results = <<>> \/ results[Len(results)].Passed

\* the loop that clears allPassed at the first result that did not pass
AllPassed(results) == \A i \in 1..Len(results) : results[i].Passed

ValidateTypesResponse(results) ==
    [ Success           |-> AllPassed(results),
      Results           |-> results,
      ValueSliceCount   |-> SliceCounts(results, Len(results))[1],
      PointerSliceCount |-> SliceCounts(results, Len(results))[2] ]

TypesIdle ==
    /\ vReq = [TestScenarios |-> <<>>, DeepValidation |-> FALSE]
    /\ vCtxAtStart = FALSE
    /\ vResp = <<>>
    /\ vRet = "idle"

\* a mismatch raised as an error instead of being reported
ValidateTypes_ErrorOnMismatch ==
    /\ vRet = "idle"
    /\ vCtxAtStart' = ctxDone
    /\ LET results == validateValidationTestMessageTypes \o validatePerformanceTestMessageTypes
       IN  IF AllPassed(results)
           THEN /\ vResp' = << ValidateTypesResponse(results) >>
                /\ vRet' = "ok"
           ELSE /\ vResp' = <<>>
                /\ vRet' = "FailedPrecondition"
    /\ UNCHANGED <<unitVars, gen, ctxDone, streamVars, benchVars, vReq>>

\* deep_validation decides whether the second message is validated
ValidateTypes_DeepOnly ==
    /\ vRet = "idle"
    /\ vCtxAtStart' = ctxDone
    /\ vResp' = << ValidateTypesResponse(
                       IF vReq.DeepValidation
                       THEN validateValidationTestMessageTypes \o validatePerformanceTestMessageTypes
                       ELSE validateValidationTestMessageTypes) >>
    /\ vRet' = "ok"
    /\ UNCHANGED <<unitVars, gen, ctxDone, streamVars, benchVars, vReq>>

\* the whole handler: neither ctx nor req is read
ValidateTypes ==
    /\ vRet = "idle"
    /\ vCtxAtStart' = ctxDone
    /\ vResp' = << ValidateTypesResponse(validateValidationTestMessageTypes
                                            \o validatePerformanceTestMessageTypes) >>
    /\ vRet' = "ok"
    /\ UNCHANGED <<unitVars, gen, ctxDone, streamVars, benchVars, vReq>>

\* ------------------------------------------------------------------------
\* The HTTP readiness probe (cmd/server: readinessHandler)
\* ------------------------------------------------------------------------

\* the request the probe builds
ProbeRequest == [TestScenarios |-> <<"basic">>, DeepValidation |-> FALSE]

\* validationServer.ValidateTypes(ctx, req) as its caller sees it: the
\* response and the error, which is always nil
ValidateTypesCall(r) ==
    [ resp |-> << ValidateTypesResponse(validateValidationTestMessageTypes
                                            \o validatePerformanceTestMessageTypes) >>,
      err  |-> "nil" ]

\* not ready also when the response's success flag is false
ReadinessStatus_NeedsSuccess(call) ==
    IF call.err # "nil" \/ ~call.resp[1].Success THEN 503 ELSE 200

\* http.StatusServiceUnavailable if err != nil, http.StatusOK otherwise; the
\* response is discarded
ReadinessStatus(call) ==
    IF call.err # "nil" THEN 503 ELSE 200

readinessHandler ==
    /\ hStatus = 0
    /\ LET call == ValidateTypesCall(ProbeRequest)
       IN  /\ hCall' = <<call>>
           /\ hStatus' = ReadinessStatus(call)
    /\ UNCHANGED <<gen, ctxDone, streamVars, benchVars, typesVars, summaryVars, allocVars,
                   concVars, multiVars>>

\* ------------------------------------------------------------------------
\* ValidateTypes, statement by statement, in concurrent calls.  Each call
\* runs in a goroutine of its own; everything it touches is a local.
\* ------------------------------------------------------------------------

\* calls in flight at once
NumCallers == 2

Callers == 1..NumCallers

\* the locals on entry: results empty, both counts zero
CallEntry ==
    [ pc |-> "validation", results |-> <<>>, i |-> 0,
      valueSliceCount |-> 0, pointerSliceCount |-> 0, allPassed |-> TRUE ]

ConcInit ==
    /\ calls = [c \in Callers |-> CallEntry]
    /\ callResp = [c \in Callers |-> <<>>]

\* the local of call `c` rewritten, the other calls' left alone
SetCall(c, l) == calls' = [calls EXCEPT ![c] = l]

\* validationResults appended to the results of every call in flight
ConcValidation_Shared(c) ==
    /\ calls[c].pc = "validation"
    /\ calls' = [d \in Callers |->
                    IF d = c
                    THEN [calls[d] EXCEPT !.results = @ \o validateValidationTestMessageTypes,
                                          !.pc = "performance"]
                    ELSE [calls[d] EXCEPT !.results = @ \o validateValidationTestMessageTypes]]
    /\ UNCHANGED <<nonConcVars, callResp>>

\* results = append(results, validationResults...)
ConcValidation(c) ==
    /\ calls[c].pc = "validation"
    /\ SetCall(c, [calls[c] EXCEPT !.results = @ \o validateValidationTestMessageTypes,
                                   !.pc = "performance"])
    /\ UNCHANGED <<nonConcVars, callResp>>

\* results = append(results, performanceResults...); the counting loop is next
ConcPerformance(c) ==
    /\ calls[c].pc = "performance"
    /\ SetCall(c, [calls[c] EXCEPT !.results = @ \o validatePerformanceTestMessageTypes,
                                   !.pc = "count", !.i = 1])
    /\ UNCHANGED <<nonConcVars, callResp>>

\* one iteration of the counting loop, or its end
ConcCount(c) ==
    /\ calls[c].pc = "count"
    /\ LET l == calls[c]
       IN  IF l.i > Len(l.results)
           THEN SetCall(c, [l EXCEPT !.pc = "check", !.i = 1, !.allPassed = TRUE])
           ELSE LET result == l.results[l.i]
                IN  IF result.Passed /\ containsValueSlice(result.ActualType)
                    THEN SetCall(c, [l EXCEPT !.valueSliceCount = @ + 1, !.i = @ + 1])
                    ELSE IF result.Passed /\ containsPointerSlice(result.ActualType)
                    THEN SetCall(c, [l EXCEPT !.pointerSliceCount = @ + 1, !.i = @ + 1])
                    ELSE SetCall(c, [l EXCEPT !.i = @ + 1])
    /\ UNCHANGED <<nonConcVars, callResp>>

\* one iteration of the allPassed loop, its break, or its end
ConcCheck(c) ==
    /\ calls[c].pc = "check"
    /\ LET l == calls[c]
       IN  IF l.i > Len(l.results)
           THEN SetCall(c, [l EXCEPT !.pc = "return"])
           ELSE IF ~l.results[l.i].Passed
           THEN SetCall(c, [l EXCEPT !.allPassed = FALSE, !.pc = "return"])
           ELSE SetCall(c, [l EXCEPT !.i = @ + 1])
    /\ UNCHANGED <<nonConcVars, callResp>>

\* return &v1.ValidateTypesResponse{...}, nil
ConcReturn(c) ==
    /\ calls[c].pc = "return"
    /\ callResp' = [callResp EXCEPT ![c] =
                       << [ Success           |-> calls[c].allPassed,
                            Results           |-> calls[c].results,
                            ValueSliceCount   |-> calls[c].valueSliceCount,
                            PointerSliceCount |-> calls[c].pointerSliceCount ] >>]
    /\ SetCall(c, [calls[c] EXCEPT !.pc = "done"])
    /\ UNCHANGED nonConcVars

\* ------------------------------------------------------------------------
\* Streaming: the handler's pure parts
\* ------------------------------------------------------------------------

\* a check that looks at the elements: an empty value slice is refused
validateTestMessage_NonEmpty(msg) ==
    IF msg = NilMsg
    THEN FALSE
    ELSE /\ msg[1].ValueSliceData > 0
         /\ gen["ValidationTestMessage.ValueSliceData"] = ValueSliceOf(DataPointName)
         /\ gen["ValidationTestMessage.PointerSliceData"] = PointerSliceOf(DataPointName)

validateTestMessage(msg) ==
    IF msg = NilMsg
    THEN FALSE
    ELSE /\ gen["ValidationTestMessage.ValueSliceData"] = ValueSliceOf(DataPointName)
         /\ gen["ValidationTestMessage.PointerSliceData"] = PointerSliceOf(DataPointName)

\* float64(items) / processingTime.Seconds(): IEEE division, so a zero
\* duration gives +Inf, or NaN when there are no items either
\* a finite quotient is kept as the pair it divides: num per den nanoseconds
Throughput(items, ns) ==
    IF ns = 0
    THEN [kind |-> IF items = 0 THEN "NaN" ELSE "+Inf", num |-> items, den |-> 0]
    ELSE [kind |-> "finite", num |-> items, den |-> ns]

\* the metrics counted with the two other collections
ItemsProcessed_WithMetrics(m) == m.ValueSliceData + m.PointerSliceData + m.Metrics

\* the value slice's length taken twice
ItemsProcessed_ValueTwice(m) == m.ValueSliceData + m.ValueSliceData

ItemsProcessed(m) == m.ValueSliceData + m.PointerSliceData

\* the response numbered by the server instead of echoing the request
StreamResponse_Renumbered(r, isValid, ns) ==
    [ RequestId      |-> r.RequestId,
      Success        |-> isValid,
      Message        |-> "Processed request " \o r.RequestId,
      SequenceNumber |-> Len(emitted),
      Stats          |-> [ ProcessingTimeNs |-> ns,
                           ItemsProcessed   |-> r.TestData[1].ValueSliceData + r.TestData[1].PointerSliceData,
                           Throughput       |-> [kind |-> "finite", num |-> 0, den |-> 1] ] ]

\* the response literal; r.TestData is non-nil here
StreamResponse(r, isValid, ns) ==
    [ RequestId      |-> r.RequestId,
      Success        |-> isValid,
      Message        |-> "Processed request " \o r.RequestId,
      SequenceNumber |-> r.SequenceNumber,
      Stats          |-> [ ProcessingTimeNs |-> ns,
                           ItemsProcessed   |-> ItemsProcessed(r.TestData[1]),
                           Throughput       |-> Throughput(ItemsProcessed(r.TestData[1]), ns) ] ]

\* ------------------------------------------------------------------------
\* Streaming: the client and the transport
\* ------------------------------------------------------------------------

ClientSend ==
    /\ sendSide = "open"
    /\ Len(received) + Len(sendq) < MaxReqs
    /\ \E r \in StreamRequests : sendq' = Append(sendq, r)
    /\ UNCHANGED <<nonStreamVars, multiVars, sendSide, pc, req, received, emitted, recvErr, sendFailed, ret, conn>>

ClientCloseSend ==
    /\ sendSide = "open"
    /\ sendSide' = "closed"
    /\ UNCHANGED <<nonStreamVars, multiVars, sendq, pc, req, received, emitted, recvErr, sendFailed, ret, conn>>

\* the transport breaks under a handler that is still running
TransportFail ==
    /\ sendSide \in {"open", "closed"}
    /\ ret = "running"
    /\ sendSide' = "failed"
    /\ UNCHANGED <<nonStreamVars, multiVars, sendq, pc, req, received, emitted, recvErr, sendFailed, ret, conn>>

\* what stream.Recv() can return now: a request, io.EOF once the client has
\* closed and everything sent was delivered, or the transport's error
RecvResults ==
    IF sendSide = "failed"
    THEN {[err |-> "transport", req |-> NoRequest]}
    ELSE IF sendq # <<>>
    THEN {[err |-> "none", req |-> <<Head(sendq)>>]}
    ELSE IF sendSide = "closed"
    THEN {[err |-> "EOF", req |-> NoRequest]}
    ELSE {}

\* ------------------------------------------------------------------------
\* Streaming: the handler
\* ------------------------------------------------------------------------

\* return from StreamValidation with the given result
Return(result) ==
    /\ ret' = result
    /\ conn' = "CLOSED"
    /\ pc' = "done"
    /\ req' = NoRequest

\* the process exits: every other connection that is open goes down with
\* its handler
Killed(p) ==
    [k \in DOMAIN p |->
        IF p[k] # <<>> /\ p[k][1].conn = "OPEN"
        THEN << [p[k][1] EXCEPT !.conn = "CRASHED", !.ret = "killed", !.pc = "done",
                                !.req = NoRequest] >>
        ELSE p[k]]

\* the goroutine panics: the handler never returns.  Nothing recovers the
\* panic (grpc.NewServer() is given no interceptor), so the runtime ends the
\* process
Panic ==
    /\ ret' = "panic"
    /\ conn' = "CRASHED"
    /\ pc' = "done"
    /\ req' = NoRequest
    /\ parked' = (IF parked = <<>> THEN <<>> ELSE Killed(parked))
    /\ UNCHANGED <<cur, sent>>

\* if err != nil { return nil }
OnRecvError(err) == Return("nil")

\* a receive that drops the request it read when another is already waiting
StreamRecv_Skipping ==
    /\ pc = "recv"
    /\ \E res \in RecvResults :
         /\ recvErr' = res.err
         /\ IF res.err # "none"
            THEN /\ Return("nil")
                 /\ UNCHANGED <<sendq, received>>
            ELSE IF Len(sendq) > 1
            THEN /\ sendq' = Tail(sendq)
                 /\ received' = Append(received, res.req[1])
                 /\ UNCHANGED <<pc, req, ret, conn>>
            ELSE /\ req' = res.req
                 /\ sendq' = Tail(sendq)
                 /\ received' = Append(received, res.req[1])
                 /\ pc' = "process"
                 /\ UNCHANGED <<ret, conn>>
    /\ UNCHANGED <<nonStreamVars, multiVars, sendSide, emitted, sendFailed>>

\* req, err := stream.Recv() and the check of err
StreamRecv ==
    /\ pc = "recv"
    /\ \E res \in RecvResults :
         /\ recvErr' = res.err
         /\ IF res.err # "none"
            THEN /\ OnRecvError(res.err)
                 /\ UNCHANGED <<sendq, received>>
            ELSE /\ req' = res.req
                 /\ sendq' = Tail(sendq)
                 /\ received' = Append(received, res.req[1])
                 /\ pc' = "process"
                 /\ UNCHANGED <<ret, conn>>
    /\ UNCHANGED <<nonStreamVars, multiVars, sendSide, emitted, sendFailed>>

\* the response left for later: the loop reads on without sending it
OnSendResult_Deferred(resp, failed) ==
    /\ pc' = "recv"
    /\ req' = NoRequest
    /\ UNCHANGED <<emitted, sendFailed, ret, conn>>

\* the send error ignored: the loop goes on
OnSendResult_Continue(resp, failed) ==
    /\ sendFailed' = (sendFailed \/ failed)
    /\ emitted' = (IF failed THEN emitted ELSE Append(emitted, resp))
    /\ pc' = "recv"
    /\ req' = NoRequest
    /\ UNCHANGED <<ret, conn>>

\* if err := stream.Send(resp); err != nil { return err }
OnSendResult(resp, failed) ==
    IF failed
    THEN /\ sendFailed' = TRUE
         /\ Return("SendErr")
         /\ UNCHANGED emitted
    ELSE /\ emitted' = Append(emitted, resp)
         /\ pc' = "recv"
         /\ req' = NoRequest
         /\ UNCHANGED <<sendFailed, ret, conn>>

\* the body of the loop after a successful Recv: validate, build the
\* response, send it
StreamProcess ==
    /\ pc = "process"
    /\ LET r == req[1]
           isValid == validateTestMessage(r.TestData)
       IN  IF r.TestData = NilMsg
           THEN \* req.TestData.ValueSliceData dereferences the nil pointer
                /\ Panic
                /\ UNCHANGED <<emitted, sendFailed>>
           ELSE /\ \E ns \in ProcessingTimes, failed \in BOOLEAN :
                       OnSendResult(StreamResponse(r, isValid, ns), failed)
                /\ UNCHANGED multiVars
    /\ UNCHANGED <<nonStreamVars, sendSide, sendq, received, recvErr>>

StreamInit ==
    /\ sendSide = "open"
    /\ sendq = <<>>
    /\ pc = "recv"
    /\ req = NoRequest
    /\ received = <<>>
    /\ emitted = <<>>
    /\ recvErr = "none"
    /\ sendFailed = FALSE
    /\ ret = "running"
    /\ conn = "OPEN"

Init ==
    /\ gen \in StreamGens
    /\ ctxDone = FALSE
    /\ StreamInit
    /\ UnitIdle
    /\ BenchIdle
    /\ TypesIdle

Next ==
    \/ ClientSend
    \/ ClientCloseSend
    \/ TransportFail
    \/ StreamRecv
    \/ StreamProcess

Spec == Init /\ [][Next]_vars

\* the handler's goroutine keeps being scheduled
FairSpec == Spec /\ WF_vars(StreamRecv) /\ WF_vars(StreamProcess)

\* RunBenchmarks, called once, under a deadline that may pass at any moment
BenchSpecInit ==
    /\ gen = FreshGen
    /\ ctxDone \in BOOLEAN
    /\ StreamInit
    /\ UnitIdle
    /\ BenchInit
    /\ TypesIdle

BenchNext ==
    \/ DeadlineExpires
    \/ BenchStart
    \/ BenchPointerSlice
    \/ BenchMemory
    \/ BenchSerializationAndReturn

BenchSpec == BenchSpecInit /\ [][BenchNext]_vars

\* ValidateTypes, called once, over whatever the code generator produced
TypesSpecInit ==
    /\ gen \in [FieldSet -> UNION {GenChoices(f) : f \in FieldSet}]
    /\ \A f \in FieldSet : gen[f] \in GenChoices(f)
    /\ ctxDone \in BOOLEAN
    /\ StreamInit
    /\ UnitIdle
    /\ BenchIdle
    /\ vReq \in ValidateTypesRequests
    /\ vCtxAtStart = FALSE
    /\ vResp = <<>>
    /\ vRet = "idle"

TypesNext == ValidateTypes

TypesSpec == TypesSpecInit /\ [][TypesNext]_vars

\* payloads whose three collections have lengths of their own
AnyTestDatas ==
    {NilMsg} \cup
    { << [ValueSliceData |-> v, PointerSliceData |-> r, Metrics |-> m] >> :
          v \in 0..MaxElems, r \in 0..MaxElems, m \in 0..MaxElems }

\* StreamValidation on a connection whose client has sent one request, with
\* any payload, and closed its side
OneRequestInit ==
    /\ gen \in StreamGens
    /\ ctxDone = FALSE
    /\ sendSide = "closed"
    /\ \E r \in [RequestId : RequestIds, SequenceNumber : SequenceNumbers, TestData : AnyTestDatas] :
          sendq = <<r>>
    /\ pc = "recv"
    /\ req = NoRequest
    /\ received = <<>>
    /\ emitted = <<>>
    /\ recvErr = "none"
    /\ sendFailed = FALSE
    /\ ret = "running"
    /\ conn = "OPEN"
    /\ BenchIdle
    /\ TypesIdle
    /\ UnitIdle

OneRequestNext ==
    \/ StreamRecv
    \/ StreamProcess

OneRequestSpec == OneRequestInit /\ [][OneRequestNext]_vars

\* longest list of results handed to calculateBenchmarkSummary
MaxResults == 3

\* byte counts a result may carry
SummaryBytes == {Int64FromInt(64), Int64FromInt(100)}

\* a result as a benchmark builds it
BenchmarkResult(n, d, b) ==
    [ Name                |-> n,
      DurationNs          |-> d,
      Allocations         |-> 1,
      BytesAllocated      |-> b,
      OperationsPerSecond |-> OperationsPerSecond(1, d) ]

\* the results the lists are made of: every duration under an iteration
\* name, every byte count under an allocation or serialization name, both
\* under the other name; the remaining field is non-zero throughout
BenchmarkResults ==
    { BenchmarkResult(n, d, Int64FromInt(64)) :
          n \in {"ValueSlice_Iteration", "PointerSlice_Iteration"}, d \in Durations }
      \cup { BenchmarkResult(n, 1500, b) :
                 n \in {"Memory_Allocation", "Serialization"}, b \in SummaryBytes }
      \cup { BenchmarkResult("Warmup", d, b) : d \in Durations, b \in SummaryBytes }

\* calculateBenchmarkSummary applied to any list of results
SummaryInit ==
    /\ gen = FreshGen
    /\ ctxDone = FALSE
    /\ StreamInit
    /\ BenchIdle
    /\ TypesIdle
    /\ AllocIdle
    /\ ConcIdle
    /\ ProbeIdle
    /\ MultiIdle
    /\ sResults \in UNION { [1..n -> BenchmarkResults] : n \in 0..MaxResults }
    /\ sSummary = <<>>

Summarize ==
    /\ sSummary = <<>>
    /\ sSummary' = << calculateBenchmarkSummary(sResults) >>
    /\ UNCHANGED <<gen, ctxDone, streamVars, benchVars, typesVars, allocVars, concVars, probeVars,
                   multiVars, sResults>>

SummaryNext == Summarize

SummarySpec == SummaryInit /\ [][SummaryNext]_vars

\* int32 values of iterations and data_size the argument checks let through
Int32Samples == {1, 2, 1000, 67108865, 268435456, 2147483647}

\* benchmarkMemoryAllocation applied to accepted arguments
AllocInit ==
    /\ gen = FreshGen
    /\ ctxDone = FALSE
    /\ StreamInit
    /\ BenchIdle
    /\ TypesIdle
    /\ SummaryIdle
    /\ ConcIdle
    /\ ProbeIdle
    /\ MultiIdle
    /\ aArgs \in [Iterations : Int32Samples, DataSize : Int32Samples]
    /\ aResult = <<>>

AllocApply ==
    /\ aResult = <<>>
    /\ \E d \in Durations :
          aResult' = << benchmarkMemoryAllocation(aArgs.Iterations, aArgs.DataSize, d) >>
    /\ UNCHANGED <<gen, ctxDone, streamVars, benchVars, typesVars, summaryVars, concVars, probeVars,
                   multiVars, aArgs>>

AllocNext == AllocApply

AllocSpec == AllocInit /\ [][AllocNext]_vars

\* ValidateTypes called by NumCallers clients at once, any interleaving of
\* the goroutines' statements
ConcSpecInit ==
    /\ gen \in StreamGens
    /\ ctxDone = FALSE
    /\ StreamInit
    /\ BenchIdle
    /\ TypesIdle
    /\ SummaryIdle
    /\ AllocIdle
    /\ ProbeIdle
    /\ MultiIdle
    /\ ConcInit

ConcNext ==
    \/ \E c \in Callers : ConcValidation(c)
    \/ \E c \in Callers : ConcPerformance(c)
    \/ \E c \in Callers : ConcCount(c)
    \/ \E c \in Callers : ConcCheck(c)
    \/ \E c \in Callers : ConcReturn(c)

ConcSpec == ConcSpecInit /\ [][ConcNext]_vars

\* connections served at once
NumConns == 2

Conns == 1..NumConns

\* the request a connection's client sends before closing its side: a nil
\* payload or a full one
MultiRequests ==
    [RequestId : RequestIds, SequenceNumber : {0}, TestData : {NilMsg, TestMessage(MaxElems)}]

\* a connection whose handler has just been started: its goroutine's locals
\* and its stream
ConnEntry(r) ==
    [ sendSide |-> "closed", sendq |-> <<r>>, pc |-> "recv", req |-> NoRequest,
      received |-> <<>>, emitted |-> <<>>, recvErr |-> "none", sendFailed |-> FALSE,
      ret |-> "running", conn |-> "OPEN" ]

\* the running connection's stream variables, as a record
Running ==
    [ sendSide |-> sendSide, sendq |-> sendq, pc |-> pc, req |-> req,
      received |-> received, emitted |-> emitted, recvErr |-> recvErr,
      sendFailed |-> sendFailed, ret |-> ret, conn |-> conn ]

\* the stream variables become those of the record
Resume(c) ==
    /\ sendSide' = c.sendSide
    /\ sendq' = c.sendq
    /\ pc' = c.pc
    /\ req' = c.req
    /\ received' = c.received
    /\ emitted' = c.emitted
    /\ recvErr' = c.recvErr
    /\ sendFailed' = c.sendFailed
    /\ ret' = c.ret
    /\ conn' = c.conn

\* the scheduler takes the running handler off and runs connection k's
Switch(k) ==
    /\ k # cur
    /\ cur' = k
    /\ parked' = [parked EXCEPT ![cur] = <<Running>>, ![k] = <<>>]
    /\ Resume(parked[k][1])
    /\ UNCHANGED <<gen, ctxDone, benchVars, typesVars, summaryVars, allocVars, concVars,
                   probeVars, sent>>

\* NumConns connections, each with one request sent and its send side
\* closed, their handlers run under any interleaving
MultiInit ==
    /\ gen \in StreamGens
    /\ ctxDone = FALSE
    /\ BenchIdle
    /\ TypesIdle
    /\ SummaryIdle
    /\ AllocIdle
    /\ ConcIdle
    /\ ProbeIdle
    /\ sent \in [Conns -> MultiRequests]
    /\ cur = 1
    /\ parked = [k \in Conns |-> IF k = 1 THEN <<>> ELSE << ConnEntry(sent[k]) >>]
    /\ sendSide = "closed"
    /\ sendq = << sent[1] >>
    /\ pc = "recv"
    /\ req = NoRequest
    /\ received = <<>>
    /\ emitted = <<>>
    /\ recvErr = "none"
    /\ sendFailed = FALSE
    /\ ret = "running"
    /\ conn = "OPEN"

MultiNext ==
    \/ \E k \in Conns : Switch(k)
    \/ TransportFail
    \/ StreamRecv
    \/ StreamProcess

MultiSpec == MultiInit /\ [][MultiNext]_vars

\* one GET of the readiness endpoint, over whatever the code generator
\* produced
ProbeInit ==
    /\ gen \in [FieldSet -> UNION {GenChoices(f) : f \in FieldSet}]
    /\ \A f \in FieldSet : gen[f] \in GenChoices(f)
    /\ ctxDone = FALSE
    /\ StreamInit
    /\ BenchIdle
    /\ TypesIdle
    /\ SummaryIdle
    /\ AllocIdle
    /\ ConcIdle
    /\ MultiIdle
    /\ ProbeIdle

ProbeNext == readinessHandler

ProbeSpec == ProbeInit /\ [][ProbeNext]_vars

TypeOK ==
    /\ sendSide \in {"open", "closed", "failed"}
    /\ pc \in {"recv", "process", "done"}
    /\ ret \in {"running", "nil", "SendErr", "RecvErr", "panic", "killed"}
    /\ conn \in {"OPEN", "CLOSED", "CRASHED"}
    /\ Len(received) + Len(sendq) <= MaxReqs

\* ------------------------------------------------------------------------
\* Streaming: properties
\* ------------------------------------------------------------------------

Answers(resp, r) ==
    /\ resp.RequestId = r.RequestId
    /\ resp.SequenceNumber = r.SequenceNumber

NoNilPayload(rs) == \A i \in 1..Len(rs) : rs[i].TestData # NilMsg

\* responses are emitted in arrival order, one per request at most
C1_InOrder ==
    /\ Len(emitted) <= Len(received)
    /\ \A i \in 1..Len(emitted) : Answers(emitted[i], received[i])

\* when the handler has returned on the end of the input, everything the
\* client sent was received and every request has its response
C1_Final ==
    (ret = "nil" /\ recvErr = "EOF" /\ NoNilPayload(received))
        => /\ sendq = <<>>
           /\ Len(emitted) = Len(received)

\* C1: n requests with non-nil payloads, then the send side closed and no
\* transport failure: the handler finishes, having emitted exactly n
\* responses, the i-th answering the i-th request received
C1_OrderedOneToOne ==
    /\ [](C1_InOrder /\ C1_Final)
    /\ (sendSide = "closed" /\ NoNilPayload(received \o sendq)) ~> (ret # "running")

C1_Witness ==
    /\ ret = "nil"
    /\ recvErr = "EOF"
    /\ Len(emitted) >= 2
    /\ received[1] # received[2]

\* C2: a response, when emitted, carries the request_id and the
\* sequence_number of the request being processed, whatever their values
C2_EchoesTriggeringRequest ==
    [][emitted' # emitted =>
          /\ pc = "process"
          /\ emitted' = Append(emitted, emitted'[Len(emitted')])
          /\ Answers(emitted'[Len(emitted')], req[1])]_vars

\* two responses echoing numbers that go backwards, and the same id twice
C2_Witness ==
    /\ Len(emitted) >= 2
    /\ emitted[1].SequenceNumber = 1
    /\ emitted[2].SequenceNumber = 0
    /\ emitted[1].RequestId = emitted[2].RequestId

\* C3: a request with a nil payload gets a response with success=false, the
\* handler does not crash and the connection stays open
C3_NilPayloadAnswered ==
    /\ ret # "panic"
    /\ \A i \in 1..Len(received) :
          (/\ received[i].TestData = NilMsg
           /\ (i < Len(received) \/ pc # "process")
           /\ ~sendFailed)
              => /\ i <= Len(emitted)
                 /\ ~emitted[i].Success

\* C4: a receive failure other than the end of the input closes the
\* connection and is returned to the caller
C4_RecvFailurePropagated ==
    recvErr = "transport" => (conn = "CLOSED" /\ ret = "RecvErr")

\* C5: a failed send makes the handler return the send error and close the
\* connection; afterwards nothing is received and nothing is emitted
C5_SendFailureCloses ==
    /\ [](sendFailed => (ret = "SendErr" /\ conn = "CLOSED" /\ pc = "done"))
    /\ [][sendFailed => UNCHANGED <<received, emitted>>]_vars

\* a send failed while the client still had requests under way
C5_Witness ==
    /\ sendFailed
    /\ sendq # <<>>
    /\ Len(emitted) < Len(received)

\* C6: the end of the input makes the handler return without error, CLOSED;
\* and a handler that ended without a send failure ended in CLOSED
C6_InputEndCloses ==
    /\ recvErr = "EOF" => (ret = "nil" /\ conn = "CLOSED")
    /\ (pc = "done" /\ ~sendFailed) => conn = "CLOSED"

\* ------------------------------------------------------------------------
\* RunBenchmarks: properties
\* ------------------------------------------------------------------------

ValidArguments(r) == r.Iterations > 0 /\ r.DataSize > 0

CanonicalNames == <<"ValueSlice_Iteration", "PointerSlice_Iteration", "Memory_Allocation", "Serialization">>

\* C7: iterations <= 0 or data_size <= 0: the call fails with
\* InvalidArgument, returns no response, and no benchmark has begun
C7_InvalidArgumentFailsFast ==
    ~ValidArguments(bReq) =>
        /\ bLog = <<>>
        /\ bResults = <<>>
        /\ bResp = <<>>
        /\ bpc = "done" => bRet = "InvalidArgument"

\* the integration test's request: iterations = -1 with a good data_size
C7_Witness ==
    /\ bpc = "done"
    /\ bRet = "InvalidArgument"
    /\ bReq.Iterations = -1
    /\ bReq.DataSize > 0

\* C8: iterations > 0 and data_size > 0: the call returns success, a summary
\* and the four canonical results in their order, the summary being that of
\* these four results
C8_FourResultsAndSummary ==
    (bpc = "done" /\ ValidArguments(bReq)) =>
        /\ bRet = "ok"
        /\ bResp # <<>>
        /\ bResp[1].Success
        /\ bResp[1].Summary # <<>>
        /\ [i \in 1..Len(bResp[1].Results) |-> bResp[1].Results[i].Name] = CanonicalNames
        /\ bResp[1].Summary[1] = calculateBenchmarkSummary(bResp[1].Results)
        /\ [i \in 1..Len(bLog) |-> bLog[i].phase] = CanonicalNames

\* C9: a unary call whose deadline has passed when it starts, or for
\* RunBenchmarks when one of its four phases starts, fails with
\* DeadlineExceeded and returns no results
C9_DeadlineChecked ==
    /\ (vRet # "idle" /\ vCtxAtStart) => (vRet = "DeadlineExceeded" /\ vResp = <<>>)
    /\ (/\ bpc = "done"
        /\ bRet # "panic"
        /\ \E i \in 1..Len(bLog) : bLog[i].expired)
           => (bRet = "DeadlineExceeded" /\ bResp = <<>>)

\* ------------------------------------------------------------------------
\* ValidateTypes: properties
\* ------------------------------------------------------------------------

\* C10: in every result, passed says whether the actual type is the
\* expected one, and the error message is empty exactly when it passed
C10_PassedIffTypesEqual ==
    vResp # <<>> =>
        \A i \in 1..Len(vResp[1].Results) :
            LET r == vResp[1].Results[i]
            IN  /\ r.Passed = (r.ActualType = r.ExpectedType)
                /\ (r.ErrorMessage = <<>>) = r.Passed

\* a response holding a result that passed and one that did not
C10_Witness ==
    /\ vResp # <<>>
    /\ \E i, j \in 1..Len(vResp[1].Results) :
          /\ vResp[1].Results[i].Passed
          /\ ~vResp[1].Results[j].Passed
          /\ vResp[1].Results[j].ErrorMessage # <<>>


\* C11: the response's success is true exactly when every result in its
\* list passed
C11_SuccessIsConjunction ==
    vResp # <<>> =>
        (vResp[1].Success <=> \A i \in 1..Len(vResp[1].Results) : vResp[1].Results[i].Passed)

\* success is false although the last result passed
C11_Witness ==
    /\ vResp # <<>>
    /\ ~vResp[1].Success
    /\ ~vResp[1].Results[1].Passed
    /\ \A i \in 2..Len(vResp[1].Results) : vResp[1].Results[i].Passed

\* C12: one result per registry entry, six, in the registry's order; when
\* the generated types are the intended ones every result passed, success is
\* true and both counts are positive
C12_OneResultPerContract ==
    vResp # <<>> =>
        /\ Len(vResp[1].Results) = 6
        /\ \A i \in 1..Len(vResp[1].Results) :
              /\ vResp[1].Results[i].Scenario = Fields[i]
              /\ vResp[1].Results[i].ExpectedType = FreshGen[Fields[i]]
        /\ gen = FreshGen =>
              /\ \A i \in 1..Len(vResp[1].Results) : vResp[1].Results[i].Passed
              /\ vResp[1].Success
              /\ vResp[1].ValueSliceCount > 0
              /\ vResp[1].PointerSliceCount > 0

C12_Witness ==
    /\ vResp # <<>>
    /\ gen = FreshGen
    /\ vResp[1].Success
    /\ vResp[1].ValueSliceCount = 4
    /\ vResp[1].PointerSliceCount = 2

\* the representation a type string resolves to
ResolvesToReference(typeStr) == Len(typeStr) >= 3 /\ typeStr[1] = "[" /\ typeStr[2] = "]" /\ typeStr[3] = "*"

ResolvesToValue(typeStr) == Len(typeStr) >= 3 /\ typeStr[1] = "[" /\ typeStr[2] = "]" /\ typeStr[3] # "*"

\* C13: the two counts are the numbers of results whose actual type is a
\* value collection and a reference collection, passed or not
C13_CountsAllResolved ==
    vResp # <<>> =>
        /\ vResp[1].ValueSliceCount =
              Cardinality({i \in 1..Len(vResp[1].Results) : ResolvesToValue(vResp[1].Results[i].ActualType)})
        /\ vResp[1].PointerSliceCount =
              Cardinality({i \in 1..Len(vResp[1].Results) : ResolvesToReference(vResp[1].Results[i].ActualType)})

\* C14: the call always returns a response and a nil error; a field whose
\* actual type is not the expected one is an entry with passed=false among
\* the six entries
C14_MismatchIsAResult ==
    vRet # "idle" =>
        /\ vRet = "ok"
        /\ vResp # <<>>
        /\ Len(vResp[1].Results) = Len(Fields)
        /\ \A i \in 1..Len(Fields) :
              /\ vResp[1].Results[i].Scenario = Fields[i]
              /\ vResp[1].Results[i].ActualType = gen[Fields[i]]
              /\ gen[Fields[i]] # ExpectedType(Fields[i]) => ~vResp[1].Results[i].Passed

\* the first field mismatches and the entries after it are still there
C14_Witness ==
    /\ vRet = "ok"
    /\ vResp # <<>>
    /\ ~vResp[1].Results[1].Passed
    /\ vResp[1].Results[6].Passed


\* ------------------------------------------------------------------------
\* Streaming: the statistics of a response
\* ------------------------------------------------------------------------

TotalElements(m) == m.ValueSliceData + m.PointerSliceData + m.Metrics

\* C18, as stated: items_processed is the number of elements of all three
\* collection fields of the payload
C18_CountsAllFields ==
    \A i \in 1..Len(emitted) :
        emitted[i].Stats.ItemsProcessed = TotalElements(received[i].TestData[1])

\* C18, amended: items_processed is the number of elements of the payload's
\* collection fields other than metrics
C18_CountsAllButMetrics ==
    \A i \in 1..Len(emitted) :
        emitted[i].Stats.ItemsProcessed + received[i].TestData[1].Metrics
            = TotalElements(received[i].TestData[1])

\* a response to a payload that holds metrics and unequal slices
C18_Witness ==
    /\ Len(emitted) = 1
    /\ received[1].TestData[1].Metrics > 0
    /\ received[1].TestData[1].ValueSliceData < received[1].TestData[1].PointerSliceData

\* C19: the response to a payload with v value elements and r reference
\* elements reports items_processed = v + r
C19_ItemsAreValuePlusReference ==
    [][emitted' # emitted =>
          emitted'[Len(emitted')].Stats.ItemsProcessed
              = req[1].TestData[1].ValueSliceData + req[1].TestData[1].PointerSliceData]_vars

\* the integration test's payload: one element in each field, 2 reported
C19_Witness ==
    /\ Len(emitted) = 1
    /\ received[1].TestData = << [ValueSliceData |-> 1, PointerSliceData |-> 1, Metrics |-> 1] >>
    /\ emitted[1].Stats.ItemsProcessed = 2


\* ------------------------------------------------------------------------
\* RunBenchmarks: the summary and the results' numbers
\* ------------------------------------------------------------------------

\* the duration of the last result of that name, 0 when there is none
LastDuration(results, name) ==
    LET at == {i \in 1..Len(results) : results[i].Name = name}
    IN  IF at = {} THEN 0
        ELSE results[CHOOSE i \in at : \A j \in at : j <= i].DurationNs

\* C15: improvement_ratio is reference_duration / value_duration when both
\* iteration durations are non-zero and 1.0 otherwise; its divisor is never 0
C15_RatioOrOne ==
    sSummary # <<>> =>
        LET v == LastDuration(sResults, "ValueSlice_Iteration")
            p == LastDuration(sResults, "PointerSlice_Iteration")
            ratio == sSummary[1].PerformanceImprovementRatio
        IN  /\ ratio.den # 0
            /\ (v # 0 /\ p # 0) => ratio = [num |-> p, den |-> v]
            /\ (v = 0 \/ p = 0) => ratio = [num |-> 1, den |-> 1]

\* a summary whose ratio is a quotient of two measured durations
C15_Witness ==
    /\ sSummary # <<>>
    /\ sSummary[1].PerformanceImprovementRatio = [num |-> 3000, den |-> 1500]

\* the bytes of the allocation and serialization results from index i on
RECURSIVE BytesFrom(_, _)
BytesFrom(results, i) ==
    IF i > Len(results) THEN Int64FromInt(0)
    ELSE IF results[i].Name \in {"Memory_Allocation", "Serialization"}
         THEN Int64Add(results[i].BytesAllocated, BytesFrom(results, i + 1))
         ELSE BytesFrom(results, i + 1)

NamedByABenchmark(result) ==
    result.Name \in {"ValueSlice_Iteration", "PointerSlice_Iteration",
                     "Memory_Allocation", "Serialization"}

\* C16: memory_savings_bytes is the sum of bytes_allocated over the
\* allocation and serialization results; a result of any other name changes
\* no field of the summary, which is produced all the same
C16_SumsAllocationAndSerialization ==
    sSummary # <<>> =>
        /\ sSummary[1].MemorySavingsBytes = BytesFrom(sResults, 1)
        /\ sSummary[1].ValueSliceAvgDuration = LastDuration(sResults, "ValueSlice_Iteration")
        /\ sSummary[1].PointerSliceAvgDuration = LastDuration(sResults, "PointerSlice_Iteration")
        /\ sSummary[1] = calculateBenchmarkSummary(SelectSeq(sResults, NamedByABenchmark))

\* an allocation result, a serialization result and one of another name
C16_Witness ==
    /\ sSummary # <<>>
    /\ Len(sResults) = 3
    /\ {sResults[i].Name : i \in 1..3} = {"Memory_Allocation", "Serialization", "Warmup"}
    /\ sSummary[1].MemorySavingsBytes = Int64FromInt(164)

\* C20, as stated: a result's duration, allocation count and byte count are
\* never negative
C20_NothingNegative ==
    aResult # <<>> =>
        /\ aResult[1].DurationNs >= 0
        /\ aResult[1].Allocations >= 0
        /\ ~Int64Negative(aResult[1].BytesAllocated)


\* ------------------------------------------------------------------------
\* ValidateTypes: concurrent calls
\* ------------------------------------------------------------------------

\* what a call running alone returns
ResponseAlone ==
    ValidateTypesResponse(validateValidationTestMessageTypes \o validatePerformanceTestMessageTypes)

\* C17: every call running concurrently with others returns the response a
\* call running alone returns, success=true over the intended types
C17_SameAsAlone ==
    \A c \in Callers :
        callResp[c] # <<>> =>
            /\ callResp[c][1] = ResponseAlone
            /\ gen = FreshGen => callResp[c][1].Success

\* a call has returned success while another is in its counting loop
C17_Witness ==
    \E c, d \in Callers :
        /\ c # d
        /\ callResp[c] # <<>>
        /\ callResp[c][1].Success
        /\ calls[d].pc = "count"
        /\ calls[d].i = 3


\* ------------------------------------------------------------------------
\* Streaming: one request at a time
\* ------------------------------------------------------------------------

\* C21: receive and send alternate: at most one received request is without
\* its response, and none is when the handler is about to receive
C21_OneInFlight ==
    /\ Len(received) - Len(emitted) \in {0, 1}
    /\ pc = "recv" => Len(emitted) = Len(received)
    /\ pc = "process" => (req # NoRequest /\ req[1] = received[Len(received)]
                             /\ Len(emitted) = Len(received) - 1)

\* the second request is being processed; the first has its response
C21_Witness ==
    /\ pc = "process"
    /\ Len(received) = 2
    /\ Len(emitted) = 1

\* C22: the success of a response is decided by the generated field types
\* alone: the same for empty and non-empty collections, true for every
\* non-nil payload when the types are the intended ones
C22_TypeLevelCheck ==
    /\ ~validateTestMessage(NilMsg)
    /\ \A i \in 1..Len(emitted) :
          emitted[i].Success
              = /\ gen["ValidationTestMessage.ValueSliceData"] = <<"[", "]">> \o DataPointName
                /\ gen["ValidationTestMessage.PointerSliceData"] = <<"[", "]", "*">> \o DataPointName

\* a payload whose collections are all empty is answered with success
C22_Witness ==
    /\ Len(emitted) = 1
    /\ received[1].TestData = << [ValueSliceData |-> 0, PointerSliceData |-> 0, Metrics |-> 0] >>
    /\ emitted[1].Success

\* ------------------------------------------------------------------------
\* RunBenchmarks: what each benchmark reports
\* ------------------------------------------------------------------------

\* an int64 as ten bytes, and the product of two such numbers, in which the
\* products of numbers below 2^63 are exact
TenBytes(a) == [i \in 1..10 |-> IF i <= 8 THEN a[i] ELSE 0]

ExactMul(a, b) == [i \in 1..10 |-> (MulColumn(a, b, i, i) + MulCarry(a, b, i)) % 256]

\* C23, as stated: the allocation result has allocation_count = iterations
\* and bytes_allocated = iterations * data_size * 64
C23_OnePerIterationSizeProportional ==
    aResult # <<>> =>
        /\ aResult[1].Allocations = aArgs.Iterations
        /\ TenBytes(aResult[1].BytesAllocated)
               = ExactMul(ExactMul(TenBytes(Int64FromInt(aArgs.Iterations)),
                                   TenBytes(Int64FromInt(aArgs.DataSize))),
                          TenBytes(Int64FromInt(64)))

C25_EncodeFailureTolerated ==
    (bpc = "done" /\ Len(bLog) = 4) =>
        /\ Len(bResults) = 4
        /\ bResults[4].Name = "Serialization"
        /\ bResults[4].Allocations = bReq.Iterations
        /\ ~Int64Negative(bResults[4].BytesAllocated)
        /\ bRet = "ok"


\* ------------------------------------------------------------------------
\* Requests whose fields the handlers do not read
\* ------------------------------------------------------------------------

\* C27: the ValidateTypes response is decided by the generated types alone:
\* whatever scenarios and deep_validation the request carries, it is the
\* six results in the registry's order with their counts and success
C27_RequestIgnored ==
    vResp # <<>> =>
        /\ vResp[1] = ResponseAlone
        /\ [i \in 1..Len(vResp[1].Results) |-> vResp[1].Results[i].Scenario] = Fields

\* a response to a request with duplicated, unknown scenario names and
\* deep_validation set
C27_Witness ==
    /\ vResp # <<>>
    /\ vReq = [TestScenarios |-> <<"worker_0", "worker_0">>, DeepValidation |-> TRUE]
    /\ Len(vResp[1].Results) = 6

\* C28, as stated: whatever names the request lists, a call with valid
\* iterations and data_size runs and returns the four canonical benchmarks,
\* in their order
C28_NamesIgnored ==
    (bpc = "done" /\ bReq.Iterations > 0 /\ bReq.DataSize > 0) =>
        /\ bResp # <<>>
        /\ Len(bResp[1].Results) = 4
        /\ \A i \in 1..4 : bResp[1].Results[i].Name = CanonicalNames[i]

\* C29: the two counts are the numbers of passed results of each kind, no
\* result is in both, and together they are the number of passed results
C29_CountsPartitionPassed ==
    vResp # <<>> =>
        LET results == vResp[1].Results
            passed == {i \in 1..Len(results) : results[i].Passed}
            asValue == {i \in passed : ResolvesToValue(results[i].ActualType)}
            asReference == {i \in passed : ResolvesToReference(results[i].ActualType)}
        IN  /\ asValue \cap asReference = {}
            /\ vResp[1].ValueSliceCount = Cardinality(asValue)
            /\ vResp[1].PointerSliceCount = Cardinality(asReference)
            /\ vResp[1].ValueSliceCount + vResp[1].PointerSliceCount = Cardinality(passed)
            /\ Cardinality(passed) <= Len(results)

\* two results did not pass: four are counted, out of six
C29_Witness ==
    /\ vResp # <<>>
    /\ Cardinality({i \in 1..6 : ~vResp[1].Results[i].Passed}) = 2
    /\ vResp[1].ValueSliceCount + vResp[1].PointerSliceCount = 4


\* ------------------------------------------------------------------------
\* The readiness probe
\* ------------------------------------------------------------------------

\* C30: the probe answers 503 exactly when its ValidateTypes call returned an
\* error and 200 otherwise, whatever the response's success flag is
C30_ReadyUnlessError ==
    hStatus # 0 =>
        /\ hCall # <<>>
        /\ hStatus = 503 <=> hCall[1].err # "nil"
        /\ hStatus = 200 <=> hCall[1].err = "nil"

\* ready although a contract entry did not pass
C30_Witness ==
    /\ hStatus = 200
    /\ ~hCall[1].resp[1].Success


\* ------------------------------------------------------------------------
\* Streaming: connections side by side
\* ------------------------------------------------------------------------

\* connection k as it is now
Connection(k) == IF k = cur THEN Running ELSE parked[k][1]

\* the responses a connection may give to a request of its own
OwnResponses(r) ==
    { StreamResponse(r, validateTestMessage(r.TestData), ns) : ns \in ProcessingTimes }

\* C26, as stated: on every connection the responses are those of its own
\* request, and a connection is ended by its own handler only: by its
\* return or, for a nil payload of its own, by its panic
C26_ConnectionsIndependent ==
    \A k \in Conns :
        LET c == Connection(k)
        IN  /\ c.received \in {<<>>, << sent[k] >>}
            /\ Len(c.emitted) <= Len(c.received)
            /\ \A i \in 1..Len(c.emitted) : c.emitted[i] \in OwnResponses(sent[k])
            /\ c.conn = "CLOSED" => c.ret \in {"nil", "SendErr"}
            /\ c.conn = "CRASHED" => (c.ret = "panic" /\ sent[k].TestData = NilMsg)

====
